---- MODULE Spec2Model ----
(***************************************************************************)
(* Model of kMeansClustering.ipynb: the notebook's cells run once, in      *)
(* order.  Cell 2 scrapes two lists and builds `news`; cell 4 vectorizes   *)
(* `news` with TfidfVectorizer(max_df=0.5, min_df=2, stop_words='english');*)
(* cell 5 fits KMeans and prints the top terms of every centroid.          *)
(*                                                                         *)
(* Texts are sequences of one-character strings.  Python indices are kept: *)
(* rows, columns and clusters count from 0.                                *)
(***************************************************************************)
EXTENDS Integers, Sequences, FiniteSets, TLC

VARIABLES pc, list_of_headlines, list_of_descriptions, news, hpos, dpos,
          vocabulary_, X, cluster_centers_, order_centroids, terms, ci, out

vars == <<pc, list_of_headlines, list_of_descriptions, news, hpos, dpos,
          vocabulary_, X, cluster_centers_, order_centroids, terms, ci, out>>

(* ------------------------------ bounds --------------------------------- *)

\* Centroid weights are drawn from 0..MaxWeight (only their order matters
\* to argsort).
MaxWeight == 1

\* k = 15 in the notebook (cell 5); scaled down.
k == 2

\* The notebook prints the first 10 entries of each row; scaled down.
TopN == 2

(* ----------------------- TfidfVectorizer arguments --------------------- *)

min_df == 2

\* max_df = 0.5, kept as the fraction max_df_num / max_df_den.
max_df_num == 1

max_df_den == 2

\* The members of the 'english' stop list that the modelled texts can form.
stop_words == { <<"a", "n">> }

(* ------------------------------ the page ------------------------------- *)

\* What the two xpath queries can return: text nodes of the page.
h_ion == <<"I", "o", "n", " ">>

h_gas == <<"g", "a", "s", " ">>

h_gas_tight == <<"g", "a", "s">>

d_an_ion == <<"a", "n", " ", "i", "o", "n">>

d_lab == <<"l", "a", "b">>

d_x_lab == <<"x", " ", "l", "a", "b">>

HeadlineLists ==
    { <<>>, <<h_ion>>, <<h_ion, h_gas>>, <<h_ion, h_gas_tight>>,
      <<h_gas, h_ion, h_gas>>, <<h_ion, h_gas, h_gas_tight>> }

DescriptionLists ==
    { <<>>, <<d_lab>>, <<d_an_ion, d_lab>>, <<d_an_ion, d_x_lab>>,
      <<d_lab, d_an_ion, d_lab>> }

(* --------------------- TfidfVectorizer (cell 4) ------------------------ *)

Range(f) == { f[x] : x \in DOMAIN f }

\* lowercase=True: the analyzer lowercases every document first.
Lower(c) == IF c = "I" THEN "i" ELSE c

\* token_pattern (?u)\b\w\w+\b: maximal runs of word characters, two or more.
RECURSIVE Scan(_, _, _)
Scan(s, cur, acc) ==
    IF s = <<>>
      THEN IF Len(cur) >= 2 THEN Append(acc, cur) ELSE acc
      ELSE IF Head(s) = " "
             THEN Scan(Tail(s), <<>>,
                       IF Len(cur) >= 2 THEN Append(acc, cur) ELSE acc)
             ELSE Scan(Tail(s), Append(cur, Lower(Head(s))), acc)

Tokenize(doc) == Scan(doc, <<>>, <<>>)

\* The analyzer: tokens of the document with the stop words removed.
Analyze(doc) == SelectSeq(Tokenize(doc), LAMBDA t : t \notin stop_words)

\* Number of times term t occurs in the analyzed document.
Count(doc, t) == Cardinality({ j \in DOMAIN Analyze(doc) : Analyze(doc)[j] = t })

\* _count_vocab: every analyzed token of every document gets a column.
RawVocabulary(docs) == UNION { Range(Analyze(docs[d])) : d \in DOMAIN docs }

\* Document frequency: the number of rows with a non-zero count in t's column.
DocFreq(docs, t) == Cardinality({ d \in DOMAIN docs : Count(docs[d], t) > 0 })

\* max_doc_count = max_df * n_doc < min_doc_count = min_df raises ValueError.
ThresholdsCross(docs) == max_df_num * Len(docs) < min_df * max_df_den

\* (a filter that drops a term at exactly max_df * n_doc)
KeepFeatureStrict(docs, t) ==
    /\ DocFreq(docs, t) * max_df_den < max_df_num * Len(docs)
    /\ DocFreq(docs, t) >= min_df

\* _limit_features: the mask dfs <= high and dfs >= low.
KeepFeature(docs, t) ==
    /\ DocFreq(docs, t) * max_df_den <= max_df_num * Len(docs)
    /\ DocFreq(docs, t) >= min_df

LimitFeatures(docs) == { t \in RawVocabulary(docs) : KeepFeature(docs, t) }

\* Feature indices follow the sorted order of the terms.
Alphabet == <<" ", "a", "b", "g", "i", "l", "n", "o", "s", "x">>

Ord(c) == CHOOSE n \in DOMAIN Alphabet : Alphabet[n] = c

RECURSIVE LexLess(_, _)
LexLess(s, t) ==
    IF t = <<>> THEN FALSE
    ELSE IF s = <<>> THEN TRUE
    ELSE IF Head(s) = Head(t) THEN LexLess(Tail(s), Tail(t))
    ELSE Ord(Head(s)) < Ord(Head(t))

\* The terms of S in sorted order, as a list indexed from 0.
SortedTerms(S) ==
    [c \in 0 .. Cardinality(S) - 1 |->
        CHOOSE t \in S : Cardinality({ u \in S : LexLess(u, t) }) = c]

\* The non-zero cells of the document-term matrix for the feature list fs.
NonZero(docs, fs) ==
    { cell \in (0 .. Len(docs) - 1) \X DOMAIN fs :
        Count(docs[cell[1] + 1], fs[cell[2]]) > 0 }

\* vectorizer.fit_transform(news) raises ValueError on an empty vocabulary,
\* on crossed thresholds and when pruning leaves no term.
FitTransformRaises(docs) ==
    \/ RawVocabulary(docs) = {}
    \/ ThresholdsCross(docs)
    \/ LimitFeatures(docs) = {}

(* ------------------------------ cell 2 --------------------------------- *)

Init ==
    /\ pc = "scrape"
    /\ list_of_headlines = <<>>
    /\ list_of_descriptions = <<>>
    /\ news = <<>>
    /\ hpos = 1
    /\ dpos = 1
    /\ vocabulary_ = <<>>
    /\ X = {}
    /\ terms = <<>>
    /\ cluster_centers_ = <<>>
    /\ order_centroids = <<>>
    /\ ci = 0
    /\ out = <<>>

\* tree.xpath(...) twice, then news=[]
Scrape ==
    /\ pc = "scrape"
    /\ \E hs \in HeadlineLists, ds \in DescriptionLists :
          /\ list_of_headlines' = hs
          /\ list_of_descriptions' = ds
    /\ news' = <<>>
    /\ hpos' = 1
    /\ dpos' = 1
    /\ pc' = "combine"
    /\ UNCHANGED <<vocabulary_, X, cluster_centers_, order_centroids, terms, ci,
                   out>>

\* One pass of the inner loop body: news.append(each_headline+each_description)
Combine(each_headline, each_description) == each_headline \o each_description

AppendNews ==
    /\ pc = "combine"
    /\ hpos <= Len(list_of_headlines)
    /\ dpos <= Len(list_of_descriptions)
    /\ news' = Append(news, Combine(list_of_headlines[hpos],
                                    list_of_descriptions[dpos]))
    /\ IF dpos < Len(list_of_descriptions)
         THEN /\ dpos' = dpos + 1
              /\ hpos' = hpos
         ELSE /\ dpos' = 1
              /\ hpos' = hpos + 1
    /\ UNCHANGED <<pc, list_of_headlines, list_of_descriptions, vocabulary_, X,
                   cluster_centers_, order_centroids, terms, ci, out>>

\* The loops are over: print(news[-1]), which raises IndexError on an empty list.
LoopsDone ==
    \/ hpos > Len(list_of_headlines)
    \/ Len(list_of_descriptions) = 0

PrintLast ==
    /\ pc = "combine"
    /\ LoopsDone
    /\ pc' = IF news = <<>> THEN "error" ELSE "vectorize"
    /\ UNCHANGED <<list_of_headlines, list_of_descriptions, news, hpos, dpos,
                   vocabulary_, X, cluster_centers_, order_centroids, terms,
                   ci, out>>

(* ------------------------------ cell 4 --------------------------------- *)

\* X = vectorizer.fit_transform(news): the vocabulary (column -> term) and the
\* sparsity pattern of the TF-IDF matrix (a weight is non-zero exactly where
\* the count is).
Vectorize ==
    /\ pc = "vectorize"
    /\ IF FitTransformRaises(news)
         THEN /\ pc' = "error"
              /\ UNCHANGED <<vocabulary_, X>>
         ELSE /\ vocabulary_' = SortedTerms(LimitFeatures(news))
              /\ X' = NonZero(news, vocabulary_')
              /\ pc' = "cluster"
    /\ UNCHANGED <<list_of_headlines, list_of_descriptions, news, hpos, dpos,
                   cluster_centers_, order_centroids, terms, ci, out>>

(* ------------------------------ cell 5 --------------------------------- *)

n_samples == Len(news)

n_features == Cardinality(DOMAIN vocabulary_)

\* km.fit(X): the library call, seen from the notebook.  It raises ValueError
\* when there are fewer samples than clusters; otherwise it leaves a
\* k x n_features matrix of centroid weights in km.cluster_centers_.
Fit ==
    /\ pc = "cluster"
    /\ IF n_samples < k
         THEN /\ pc' = "error"
              /\ UNCHANGED cluster_centers_
         ELSE /\ cluster_centers_' \in
                    [0 .. k - 1 -> [0 .. n_features - 1 -> 0 .. MaxWeight]]
              /\ pc' = "argsort"
    /\ UNCHANGED <<list_of_headlines, list_of_descriptions, news, hpos, dpos,
                   vocabulary_, X, order_centroids, terms, ci, out>>

IndexOrders(n) ==
    { p \in [0 .. n - 1 -> 0 .. n - 1] :
        \A a, b \in 0 .. n - 1 : a # b => p[a] # p[b] }

\* row.argsort(): an index order that sorts the row ascending; the order of
\* equal weights is whatever the unstable default sort leaves.
Argsort(row) ==
    { p \in IndexOrders(Cardinality(DOMAIN row)) :
        \A a, b \in DOMAIN p : a < b => row[p[a]] <= row[p[b]] }

\* matrix.argsort(): every row argsorted on its own (axis=-1).
ArgsortRows(mat) ==
    LET sorts == [r \in DOMAIN mat |-> Argsort(mat[r])]
    IN  { m \in [DOMAIN mat -> UNION Range(sorts)] :
            \A r \in DOMAIN mat : m[r] \in sorts[r] }

\* (the index order left ascending)
NotReversed(p) == p

\* row[::-1]
Reversed(p) ==
    [a \in DOMAIN p |-> p[Cardinality(DOMAIN p) - 1 - a]]

\* m[:, ::-1]
ReversedRows(m) == [r \in DOMAIN m |-> Reversed(m[r])]

\* row[:n] as a sequence
Prefix(p, n) ==
    [j \in 1 .. (IF n < Cardinality(DOMAIN p) THEN n ELSE Cardinality(DOMAIN p))
        |-> p[j - 1]]

\* order_centroids = km.cluster_centers_.argsort()[:, ::-1]
\* terms = vectorizer.get_feature_names()
OrderCentroids ==
    /\ pc = "argsort"
    /\ \E m \in ArgsortRows(cluster_centers_) :
          order_centroids' = ReversedRows(m)
    /\ terms' = vocabulary_
    /\ ci' = 0
    /\ pc' = "report"
    /\ UNCHANGED <<list_of_headlines, list_of_descriptions, news, hpos, dpos,
                   vocabulary_, X, cluster_centers_, out>>

\* The terms printed for one cluster: terms[ind] for ind in order_centroids[i, :10]
TopTerms(order, names) ==
    [j \in DOMAIN Prefix(order, TopN) |-> names[Prefix(order, TopN)[j]]]

\* One pass of `for i in range(k)`: prints "Cluster i:" and its terms.
PrintCluster ==
    /\ pc = "report"
    /\ ci < k
    /\ out' = Append(out, [cluster |-> ci,
                           line |-> TopTerms(order_centroids[ci], terms)])
    /\ ci' = ci + 1
    /\ UNCHANGED <<pc, list_of_headlines, list_of_descriptions, news, hpos,
                   dpos, vocabulary_, X, cluster_centers_, order_centroids,
                   terms>>

ReportDone ==
    /\ pc = "report"
    /\ ci = k
    /\ pc' = "done"
    /\ UNCHANGED <<list_of_headlines, list_of_descriptions, news, hpos, dpos,
                   vocabulary_, X, cluster_centers_, order_centroids, terms,
                   ci, out>>

Next ==
    \/ Scrape
    \/ AppendNews
    \/ PrintLast
    \/ Vectorize
    \/ Fit
    \/ OrderCentroids
    \/ PrintCluster
    \/ ReportDone

Spec == Init /\ [][Next]_vars

\* The notebook run through cell 4 only (scraping, `news`, vectorization).
NextThroughCell4 ==
    \/ Scrape
    \/ AppendNews
    \/ PrintLast
    \/ Vectorize

SpecThroughCell4 == Init /\ [][NextThroughCell4]_vars

(* ------------------------------ claims --------------------------------- *)

Built == pc \notin {"scrape", "combine"}

Vectorized == pc \in {"cluster", "argsort", "report", "done"}

\* C7: once `news` is built from a page with one description per headline,
\* it holds one entry per headline, and entry i is headline i followed by
\* description i.
C7_PairedByPosition ==
    (Built /\ Len(list_of_headlines) = Len(list_of_descriptions)) =>
        /\ Len(news) = Len(list_of_headlines)
        /\ \A n \in DOMAIN news :
              news[n] = list_of_headlines[n] \o list_of_descriptions[n]

\* Every token the tokenizer finds in some document.
AllTokens == UNION { Range(Tokenize(news[d])) : d \in DOMAIN news }

\* The number of documents in which the tokenizer finds t.
TokenDF(t) == Cardinality({ d \in DOMAIN news : t \in Range(Tokenize(news[d])) })

\* C6: after vectorization a term is in the vocabulary if and only if it is
\* not a stop word and min_df <= DF <= max_df * N, both bounds inclusive
\* (DF >= 2 and DF <= half the number of documents).
C6_VocabularyFilter ==
    Vectorized =>
        /\ Range(vocabulary_) \subseteq AllTokens
        /\ \A t \in AllTokens :
              t \in Range(vocabulary_) <=>
                  /\ t \notin stop_words
                  /\ 2 <= TokenDF(t)
                  /\ 2 * TokenDF(t) <= Len(news)

\* C6's case: a vocabulary that keeps a term at exactly DF = N / 2 and one
\* at exactly DF = 2, while a stop word and an over-frequent term with
\* DF >= 2 are left out.
C6_Witness ==
    /\ Vectorized
    /\ \E t \in Range(vocabulary_) : 2 * TokenDF(t) = Len(news)
    /\ \E t \in Range(vocabulary_) : TokenDF(t) = 2
    /\ \E t \in AllTokens \cap stop_words :
          TokenDF(t) >= 2 /\ 2 * TokenDF(t) <= Len(news)
    /\ \E t \in AllTokens \ stop_words : 2 * TokenDF(t) > Len(news)
    /\ \E t \in AllTokens \ stop_words : TokenDF(t) < 2

\* The column of a vocabulary term.
ColumnOf(t) == CHOOSE c \in DOMAIN vocabulary_ : vocabulary_[c] = t

\* The line printed for a cluster lists min(TopN, n_features) distinct
\* vocabulary terms, heaviest first, and no unlisted term is heavier than a
\* listed one.
TopTermsOf(line, weights) ==
    /\ Len(line) = IF TopN < n_features THEN TopN ELSE n_features
    /\ \A j \in DOMAIN line : line[j] \in Range(vocabulary_)
    /\ \A a, b \in DOMAIN line :
          a < b => /\ line[a] # line[b]
                   /\ weights[ColumnOf(line[a])] >= weights[ColumnOf(line[b])]
    /\ \A c \in DOMAIN vocabulary_ :
          c \notin { ColumnOf(line[j]) : j \in DOMAIN line } =>
              \A j \in DOMAIN line : weights[c] <= weights[ColumnOf(line[j])]

ReportedSoFar ==
    \A n \in DOMAIN out :
        /\ out[n].cluster = n - 1
        /\ TopTermsOf(out[n].line, cluster_centers_[n - 1])

\* The reporting steps leave the centroids, the vocabulary and the matrix alone.
ReportReadsOnly ==
    pc \in {"argsort", "report"} =>
        /\ cluster_centers_' = cluster_centers_
        /\ vocabulary_' = vocabulary_
        /\ X' = X

\* C8: for each of the k centroids the report lists the TopN vocabulary terms
\* of highest weight in that centroid, in descending order of weight, found
\* through the vocabulary's column -> term mapping; reporting changes neither
\* the centroids nor the vocabulary nor the matrix.
C8_TopTermsReport ==
    /\ [](ReportedSoFar /\ (pc = "done" => Len(out) = k))
    /\ [][ReportReadsOnly]_vars

\* C8's case: the report is complete, there are more terms than are listed,
\* and a row's heaviest term is not in its first column.
C8_Witness ==
    /\ pc = "done"
    /\ Len(out) = k
    /\ n_features > TopN
    /\ \E r \in DOMAIN cluster_centers_ :
          /\ cluster_centers_[r][0] < cluster_centers_[r][n_features - 1]
          /\ out[r + 1].line[1] # terms[0]

====
